---- MODULE Spec2Model ----
(***************************************************************************)
(* autokernel: the assignment engine (apply_autokernel_config) and the     *)
(* module graph builder (ModuleCreator) of src/autokernel.py.              *)
(***************************************************************************)
EXTENDS Integers, Sequences, FiniteSets, TLC

VARIABLES
    \* ---- apply_autokernel_config ----
    config,     \* the module graph of the configuration: module name -> module
    syms,       \* kconfig.syms: symbol -> str_value
    changes,    \* the ordered dict `changes`: sequence of [symbol, old, new]
    visited,    \* the set `visited` of module names
    stack,      \* the activations of visit(), outermost first
    status,     \* "start", "running", "done" or the die() that ended the run
    log,        \* history: what the run did, in order
    user_value, \* the dependency oracle's user values: symbol -> value last set
    \* ---- ModuleCreator ----
    direct_dep,     \* oracle: symbol -> expr_value(sym.direct_dep)
    required,       \* oracle: symbol -> required_deps(sym), a list of <<symbol, bool>>
    alternative,    \* oracle: symbol -> the other ways (lists of pairs) its direct dependency holds
    heap,           \* the Module objects created so far; a module's identity is its index
    modules,        \* self.modules: ordered dict, sequence of [name, mod]
    module_for_sym, \* self.module_for_sym: symbol -> module, NoModule when absent
    bstack,         \* the activations of _add_module_for_option, outermost first
    bstatus,        \* "idle", "building", or "recursion" when the interpreter gave up
    returned,       \* what the last add_module_for_sym call of the client returned
    trace,          \* history: the calls of add_module_for_sym and their returns
    \* ---- detect_modules and write_detected_modules ----
    all_nodes,          \* the detected nodes, sorted: sequence of [name, opts]
    detect,             \* where detect_modules / _write_detected_modules stands
    module_select_all,  \* self.module_select_all: a Module object outside the graph
    written             \* the calls writer.write_module(m), in order: [mod, name]

applyVars == <<config, syms, changes, visited, stack, status, log, user_value>>
buildVars == <<direct_dep, required, alternative, heap, modules, module_for_sym, bstack, bstatus, returned, trace>>
detectVars == <<all_nodes, detect, module_select_all, written>>
vars == <<config, syms, changes, visited, stack, status, log, user_value,
          direct_dep, required, alternative, heap, modules, module_for_sym, bstack, bstatus, returned, trace,
          all_nodes, detect, module_select_all, written>>

\* ------------------------------------------------------------------------
\* Bounds and input sets
\* ------------------------------------------------------------------------
MaxDeps == 2        \* longest dependency list of a module
MaxAssign == 1      \* longest assignment list of the first module visited
MaxReq == 2         \* longest list of required dependency pairs of a symbol
MaxDepth == 4       \* nested _add_module_for_option calls the interpreter allows
MaxCalls == 2       \* add_module_for_sym calls the client makes on one ModuleCreator
MaxFiles == 2       \* longest list of merge files of a module
MaxNodes == 2       \* most detected nodes of a system
MaxOpts == 2        \* most options the hardware catalog has for one node
MaxPairs == 3       \* most required pairs of all symbols together, when a built graph is applied
MaxRenders == 2     \* write_detected_modules calls on one ModuleCreator
MaxCatalog == 3     \* most options the hardware catalog has for all detected nodes together

Mods == {"kernel", "net", "usb"}
Root == "kernel"
Syms == {"X", "Y"}
Values == {"n", "m", "y"}
ReqValues == {"n", "m", "y"}
Files == {"extra.config", "local.config"}

NoValue == "none"

KSyms == {"NET", "INET", "IPV6"}   \* the symbols modules are built for
NoModule == 0

ExtraSyms == {"IPV4"}              \* a symbol of the oracle no module is built for

NodeNames == {"pci", "usb"}        \* node.get_canonical_name()
SelectAllRef == -1                 \* the identity of self.module_select_all
OutputModuleName == "local"        \* args.output_module_name of main_detect
DepsModuleName == "ERROR_PLEASE_REPORT_TO_DEVELOPERS"  \* the name main_deps passes

\* ------------------------------------------------------------------------
\* Helpers on sequences
\* ------------------------------------------------------------------------
Range(s) == {s[i] : i \in 1..Len(s)}

SeqsUpTo(S, n) == UNION {[1..k -> S] : k \in 0..n}

Last(s) == s[Len(s)]

\* ------------------------------------------------------------------------
\* The ordered dict `changes`
\* ------------------------------------------------------------------------
ChangedSyms(ch) == {ch[i].symbol : i \in 1..Len(ch)}

ChangeOf(ch, symbol) == ch[CHOOSE i \in 1..Len(ch) : ch[i].symbol = symbol]

\* changes[symbol] = (old, new): a new key is appended, an old key keeps its place
ChangesPut(ch, symbol, old, new) ==
    IF symbol \in ChangedSyms(ch)
    THEN [i \in 1..Len(ch) |-> IF ch[i].symbol = symbol
                                THEN [symbol |-> symbol, old |-> old, new |-> new]
                                ELSE ch[i]]
    ELSE Append(ch, [symbol |-> symbol, old |-> old, new |-> new])

\* ------------------------------------------------------------------------
\* The configuration's modules (autokernel.config): the fields visit() reads
\* ------------------------------------------------------------------------
Pairs == Syms \X ReqValues

ConfigModule(deps, files, assignments, assertions) ==
    [dependencies |-> deps, merge_kconf_files |-> files,
     assignments |-> assignments, assertions |-> assertions]

\* the loops of visit(), in the order visit() runs them
Items(m, pc) ==
    CASE pc = "deps"   -> config[m].dependencies
      [] pc = "merge"  -> config[m].merge_kconf_files
      [] pc = "assign" -> config[m].assignments
      [] pc = "assert" -> config[m].assertions
      [] OTHER         -> <<>>

\* a visit() that applies the assignments before it merges the files
NextPc_AssignFirst(pc) ==
    CASE pc = "deps"   -> "assign"
      [] pc = "assign" -> "merge"
      [] pc = "merge"  -> "assert"
      [] OTHER         -> "ret"

NextPc(pc) ==
    CASE pc = "deps"   -> "merge"
      [] pc = "merge"  -> "assign"
      [] pc = "assign" -> "assert"
      [] OTHER         -> "ret"

\* the position visit(m) is at when loop pc has handled i-1 items: the next
\* item of this loop or of the first later loop that has one, else the return
RECURSIVE Pos(_, _, _)
Pos(m, pc, i) ==
    IF pc = "ret" THEN [module |-> m, pc |-> "ret", i |-> 1]
    ELSE IF i <= Len(Items(m, pc)) THEN [module |-> m, pc |-> pc, i |-> i]
    ELSE Pos(m, NextPc(pc), 1)

Top == stack[Len(stack)]

Item == Items(Top.module, Top.pc)[Top.i]

\* the running activation moves on to its next item
Advance == [stack EXCEPT ![Len(stack)] = Pos(Top.module, Top.pc, Top.i + 1)]

\* one entry of the history: what was done, by which module's visit, on which
\* symbol (or file) with which requested value, the symbol's value in the
\* oracle before and after, and how the step ended
Event(op, m, symbol, value, old, new, result) ==
    [op |-> op, module |-> m, symbol |-> symbol, value |-> value,
     old |-> old, new |-> new, result |-> result]

VisitEvent(m, result) == Event("visit", m, NoValue, NoValue, NoValue, NoValue, result)

\* ------------------------------------------------------------------------
\* The symbol oracle (kconfiglib behind kconfig.syms / kconfig.load_config)
\* ------------------------------------------------------------------------
\* X is a tristate symbol, Y a bool symbol: 'm' is no value of Y
Tristate == {"X"}

ValidValue(symbol, value) == value \in {"n", "y"} \/ symbol \in Tristate

\* the values the symbols can have together
OracleStates == {s \in [Syms -> Values] : \A symbol \in Syms : ValidValue(symbol, s[symbol])}

\* the ways the direct dependency of sym holds: the pairs required_deps
\* reports, or one of the alternatives (a disjunction of conjunctions)
Ways(sym) == <<required[sym]>> \o alternative[sym]

\* expr_value(sym.direct_dep) in the valuation s, for the symbols the builder
\* works on
DirectDep(s, sym) ==
    \E w \in 1..Len(Ways(sym)) :
        \A k \in 1..Len(Ways(sym)[w]) : (s[Ways(sym)[w][k][1]] # "n") = Ways(sym)[w][k][2]

\* sym.str_value under the user values u: the user value where the direct
\* dependency holds for the values of the symbols it names, else 'n'; a
\* symbol without dependencies has its user value; n bounds the depth of
\* the evaluation
RECURSIVE StrValue(_, _, _)
StrValue(u, sym, n) ==
    IF sym \notin DOMAIN required THEN u[sym]
    ELSE IF n = 0 THEN "n"
    ELSE IF \E w \in 1..Len(Ways(sym)) :
                \A k \in 1..Len(Ways(sym)[w]) :
                    (StrValue(u, Ways(sym)[w][k][1], n - 1) # "n") = Ways(sym)[w][k][2]
         THEN u[sym]
         ELSE "n"

StrValues(u) == [sym \in DOMAIN u |-> StrValue(u, sym, Cardinality(DOMAIN u))]

\* sym.set_value(value): False and no effect for a value the symbol's type
\* does not have; otherwise the user value is stored and every str_value is
\* re-evaluated from the dependencies and selects. For X and Y, whose
\* dependencies are not modelled, the value read back is any value of the
\* symbol and the symbols depending on it may change with it; for the
\* symbols of the builder the values follow from the required pairs
SetValue(s, symbol, value) ==
    IF ~ValidValue(symbol, value)
    THEN {[ok |-> FALSE, syms |-> s, user |-> user_value]}
    ELSE IF symbol \in Syms
    THEN {[ok |-> TRUE, syms |-> t, user |-> user_value] : t \in OracleStates}
    ELSE LET u == [user_value EXCEPT ![symbol] = value]
         IN {[ok |-> TRUE, syms |-> StrValues(u), user |-> u]}

\* kconfig.load_config(filename): the file's values replace the current ones
LoadConfig(s, filename) == OracleStates

\* ------------------------------------------------------------------------
\* apply_autokernel_config
\* ------------------------------------------------------------------------
\* visit(config.kernel.module)
Start ==
    /\ status = "start"
    /\ status' = "running"
    /\ visited' = {Root}
    /\ stack' = <<Pos(Root, "deps", 1)>>
    /\ log' = Append(log, VisitEvent(Root, "entered"))
    /\ UNCHANGED <<config, syms, changes, user_value>>
    /\ UNCHANGED buildVars
    /\ UNCHANGED detectVars

\* for d in module.dependencies: visit(d)
Visit ==
    /\ status = "running"
    /\ stack # <<>>
    /\ Top.pc = "deps"
    /\ LET d == Item IN
         IF d \in visited
         THEN /\ stack' = Advance
              /\ UNCHANGED <<visited, log>>
         ELSE /\ visited' = visited \cup {d}
              /\ stack' = Append(stack, Pos(d, "deps", 1))
              /\ log' = Append(log, VisitEvent(d, "entered"))
    /\ UNCHANGED <<config, syms, changes, status, user_value>>
    /\ UNCHANGED buildVars
    /\ UNCHANGED detectVars

\* for filename in module.merge_kconf_files: kconfig.load_config(filename)
Merge ==
    /\ status = "running"
    /\ stack # <<>>
    /\ Top.pc = "merge"
    /\ syms' \in LoadConfig(syms, Item)
    /\ stack' = Advance
    /\ log' = Append(log, Event("merge", Top.module, NoValue, Item, NoValue, NoValue, "merged"))
    /\ UNCHANGED <<config, changes, visited, status, user_value>>
    /\ UNCHANGED buildVars
    /\ UNCHANGED detectVars

\* a die() that puts the changed symbols back to their old values first
die_Rollback(s, ch) ==
    [x \in Syms |-> IF x \in ChangedSyms(ch) THEN ChangeOf(ch, x).old ELSE s[x]]

\* die(message): the error is logged and the process exits; the oracle is
\* left with the values s it has, whatever the change log ch holds
die(s, ch) == s

\* `if symbol in changes`
PreviouslyChanged(ch, symbol) == symbol \in ChangedSyms(ch)

\* `if changes[symbol][1] != value`
Conflicting(ch, symbol, value) == ChangeOf(ch, symbol).new # value

\* a set_symbol that treats a value read back differently like an invalid one
SetOutcome_DieOnMismatch(ok, str_value, value) ==
    IF ~ok \/ str_value # value THEN "invalid" ELSE "set"

\* how set_symbol goes on after sym.set_value(value) returned ok and the
\* symbol reads back str_value: die, warn and go on, or just go on
SetOutcome(ok, str_value, value) ==
    IF ~ok THEN "invalid"
    ELSE IF str_value # value THEN "warned"
    ELSE "set"

\* a set_symbol that tracks every accepted call, changed or not
Track_EveryCall(ch, symbol, original_value, str_value) ==
    ChangesPut(ch, symbol, original_value, str_value)

\* `if original_value != sym.str_value: changes[symbol] = (...)`
Track(ch, symbol, original_value, str_value) ==
    IF original_value # str_value
    THEN ChangesPut(ch, symbol, original_value, str_value)
    ELSE ch

\* for symbol, value in module.assignments: set_symbol(symbol, value)
SetSymbol ==
    /\ status = "running"
    /\ stack # <<>>
    /\ Top.pc = "assign"
    /\ LET symbol == Item[1]
           value == Item[2]
           m == Top.module
       IN IF PreviouslyChanged(changes, symbol)
          THEN IF Conflicting(changes, symbol, value)
               THEN /\ status' = "conflict"
                    /\ syms' = die(syms, changes)
                    /\ log' = Append(log, Event("set_symbol", m, symbol, value, syms[symbol], syms[symbol], "conflict"))
                    /\ UNCHANGED <<changes, stack, user_value>>
               ELSE /\ stack' = Advance
                    /\ log' = Append(log, Event("set_symbol", m, symbol, value, syms[symbol], syms[symbol], "skipped"))
                    /\ UNCHANGED <<syms, changes, status, user_value>>
          ELSE \E r \in SetValue(syms, symbol, value) :
                 LET original_value == syms[symbol]
                     str_value == r.syms[symbol]
                     outcome == SetOutcome(r.ok, str_value, value)
                 IN /\ syms' = IF outcome = "invalid" THEN die(r.syms, changes) ELSE r.syms
                    /\ user_value' = r.user
                    /\ log' = Append(log, Event(IF r.ok THEN "set_value" ELSE "set_value_refused",
                                                m, symbol, value, original_value, str_value, outcome))
                    /\ IF outcome = "invalid"
                       THEN /\ status' = "invalid"
                            /\ UNCHANGED <<changes, stack>>
                       ELSE /\ changes' = Track(changes, symbol, original_value, str_value)
                            /\ stack' = Advance
                            /\ UNCHANGED status
    /\ UNCHANGED <<config, visited>>
    /\ UNCHANGED buildVars
    /\ UNCHANGED detectVars

\* an assert_symbol that sets the symbol to the value it expects
Asserted_Forcing(s, symbol, value) == [s EXCEPT ![symbol] = value]

\* the oracle after assert_symbol(symbol, value) has looked at the symbol:
\* sym.str_value is read and compared, nothing is set
Asserted(s, symbol, value) == s

\* for symbol, value in module.assertions: assert_symbol(symbol, value)
AssertSymbol ==
    /\ status = "running"
    /\ stack # <<>>
    /\ Top.pc = "assert"
    /\ LET symbol == Item[1]
           value == Item[2]
       IN IF syms[symbol] # value
          THEN /\ status' = "assertion"
               /\ syms' = die(Asserted(syms, symbol, value), changes)
               /\ log' = Append(log, Event("assert_symbol", Top.module, symbol, value, NoValue, syms[symbol], "failed"))
               /\ UNCHANGED stack
          ELSE /\ stack' = Advance
               /\ syms' = Asserted(syms, symbol, value)
               /\ log' = Append(log, Event("assert_symbol", Top.module, symbol, value, NoValue, syms[symbol], "passed"))
               /\ UNCHANGED status
    /\ UNCHANGED <<config, changes, visited, user_value>>
    /\ UNCHANGED buildVars
    /\ UNCHANGED detectVars

\* visit() returns; the return of visit(config.kernel.module) ends the run
Return ==
    /\ status = "running"
    /\ stack # <<>>
    /\ Top.pc = "ret"
    /\ stack' = IF Len(stack) = 1 THEN <<>>
                ELSE LET caller == stack[Len(stack) - 1]
                     IN Append(SubSeq(stack, 1, Len(stack) - 2),
                               Pos(caller.module, caller.pc, caller.i + 1))
    /\ status' = IF Len(stack) = 1 THEN "done" ELSE "running"
    /\ log' = Append(log, VisitEvent(Top.module, "returned"))
    /\ UNCHANGED <<config, syms, changes, visited, user_value>>
    /\ UNCHANGED buildVars
    /\ UNCHANGED detectVars

NextApply == Start \/ Visit \/ Merge \/ SetSymbol \/ AssertSymbol \/ Return

\* Module(name)
Module(name) ==
    [name |-> name, deps |-> <<>>, assignments |-> <<>>, assertions |-> <<>>, rev_deps |-> <<>>]

\* detect_modules is not running; nothing is rendered or reported yet
NotDetecting ==
    [pc |-> "unused", node |-> 0, opt |-> 0, mod |-> 0, local_module_count |-> 0, entry |-> 0,
     output_module_name |-> OutputModuleName, renders |-> 0,
     visited |-> {}, visited_opts |-> {}, report |-> <<>>]

\* ------------------------------------------------------------------------
\* Configurations the engine is run on
\* ------------------------------------------------------------------------
NoRepeat(s) == \A i, j \in 1..Len(s) : i # j => s[i] # s[j]

DepLists == {d \in SeqsUpTo(Mods, MaxDeps) : NoRepeat(d)}

\* every shape of the module graph; each module sets and asserts X
ShapeConfigs ==
    {[m \in Mods |-> ConfigModule(deps[m], <<>>, << <<"X", "y">> >>, << <<"X", "y">> >>)] :
        deps \in [Mods -> DepLists]}

\* kernel uses net and usb and merges a file; net and usb assign any symbol,
\* kernel assigns X, net asserts X
ContentConfigs ==
    {[m \in Mods |->
        CASE m = "kernel" -> ConfigModule(<<"net", "usb">>, <<"extra.config">>, k, <<>>)
          [] m = "net"    -> ConfigModule(<<>>, <<>>, a, t)
          [] OTHER        -> ConfigModule(<<>>, <<>>, u, <<>>)] :
        a \in SeqsUpTo(Pairs, MaxAssign),
        u \in SeqsUpTo(Pairs, 1),
        k \in SeqsUpTo({"X"} \X ReqValues, 1),
        t \in SeqsUpTo({"X"} \X {"n", "y"}, 1)}

\* kernel uses net (which may use kernel back); both merge files and assign X
MergeConfigs ==
    {[m \in Mods |->
        CASE m = "kernel" -> ConfigModule(<<"net">>, f, << <<"X", "y">> >>, <<>>)
          [] m = "net"    -> ConfigModule(d, g, << <<"X", "n">> >>, <<>>)
          [] OTHER        -> ConfigModule(<<>>, <<>>, <<>>, <<>>)] :
        f \in SeqsUpTo(Files, MaxFiles),
        g \in SeqsUpTo(Files, MaxFiles),
        d \in {<<>>, <<"kernel">>}}

InitApply ==
    /\ config \in ShapeConfigs \cup ContentConfigs \cup MergeConfigs
    /\ syms \in {s \in OracleStates : s["Y"] = "n"}
    /\ changes = <<>>
    /\ visited = {}
    /\ stack = <<>>
    /\ status = "start"
    /\ log = <<>>
    /\ user_value = [s \in Syms |-> "n"]
    /\ direct_dep = [s \in KSyms |-> TRUE]
    /\ required = [s \in KSyms |-> <<>>]
    /\ alternative = [s \in KSyms |-> <<>>]
    /\ heap = <<>>
    /\ modules = <<>>
    /\ module_for_sym = [s \in KSyms |-> NoModule]
    /\ bstack = <<>>
    /\ bstatus = "unused"
    /\ returned = NoModule
    /\ trace = <<>>
    /\ all_nodes = <<>>
    /\ detect = NotDetecting
    /\ module_select_all = Module("module_select_all")
    /\ written = <<>>

SpecApply == InitApply /\ [][NextApply]_vars

\* ------------------------------------------------------------------------
\* ModuleCreator: building the module of a symbol
\* ------------------------------------------------------------------------
\* sym.name.lower()
Lower(name) ==
    CASE name = "NET"  -> "net"
      [] name = "INET" -> "inet"
      [] name = "IPV6" -> "ipv6"
      [] OTHER         -> name

\* a name that leaves the symbol out
ModuleName_NoSymbol(sym) == "config_"

\* "config_{}".format(sym.name.lower())
ModuleName(sym) == "config_" \o Lower(sym)

\* a dict that puts a new name in front of the others
ModulesPut_InFront(ms, name, mod) ==
    IF \E i \in 1..Len(ms) : ms[i].name = name
    THEN [i \in 1..Len(ms) |-> IF ms[i].name = name THEN [name |-> name, mod |-> mod] ELSE ms[i]]
    ELSE <<[name |-> name, mod |-> mod]>> \o ms

\* self.modules[name] = mod: a new name is appended, an old name keeps its place
ModulesPut(ms, name, mod) ==
    IF \E i \in 1..Len(ms) : ms[i].name = name
    THEN [i \in 1..Len(ms) |-> IF ms[i].name = name THEN [name |-> name, mod |-> mod] ELSE ms[i]]
    ELSE Append(ms, [name |-> name, mod |-> mod])

\* a lookup under the module's name, which is never a key of module_for_sym
Memoized_ByName(memo, sym) ==
    ModuleName(sym) \in DOMAIN memo /\ memo[ModuleName(sym)] # NoModule

\* `if sym in self.module_for_sym`
Memoized(memo, sym) == memo[sym] # NoModule

\* the required pairs processed whether the direct dependency holds or not
PairsToProcess_Always(sym) == required[sym]

\* the test of the direct dependency inverted
PairsToProcess_Inverted(sym) == IF direct_dep[sym] THEN required[sym] ELSE <<>>

\* the pairs _add_module_for_option loops over: none when the symbol's direct
\* dependency already holds, else required_deps(sym)
PairsToProcess(sym) == IF direct_dep[sym] THEN <<>> ELSE required[sym]

OracleQueries(sym) == IF direct_dep[sym] THEN {"expr_value"} ELSE {"expr_value", "required_deps"}

BTop == bstack[Len(bstack)]

CallEvent(sym, client, memo, queried, mod) ==
    [op |-> "add_module_for_sym", sym |-> sym, client |-> client, memo |-> memo,
     queried |-> queried, mod |-> mod]

ReturnEvent(sym, mod) ==
    [op |-> "return", sym |-> sym, client |-> FALSE, memo |-> FALSE, queried |-> {}, mod |-> mod]

ClientCalls == Cardinality({i \in 1..Len(trace) : trace[i].op = "add_module_for_sym" /\ trace[i].client})

\* _add_module_for_option(sym) is entered: the module object is created with
\* the assignment (sym, 'y') and the oracle is asked about sym; a call nested
\* deeper than the interpreter allows ends the program
EnterOption(sym, client) ==
    IF Len(bstack) >= MaxDepth
    THEN /\ bstatus' = "recursion"
         /\ trace' = Append(trace, CallEvent(sym, client, FALSE, {}, NoModule))
         /\ UNCHANGED <<heap, bstack>>
    ELSE /\ heap' = Append(heap, [Module(ModuleName(sym)) EXCEPT !.assignments = << <<sym, "y">> >>])
         /\ bstack' = Append(bstack, [sym |-> sym, mod |-> Len(heap) + 1,
                                      todo |-> PairsToProcess(sym), i |-> 1, ret |-> NoModule])
         /\ bstatus' = "building"
         /\ trace' = Append(trace, CallEvent(sym, client, FALSE, OracleQueries(sym), Len(heap) + 1))

\* add_module_for_sym(sym) is called from outside the ModuleCreator
ClientCall(sym) ==
    /\ bstatus = "idle"
    /\ IF Memoized(module_for_sym, sym)
       THEN /\ returned' = module_for_sym[sym]
            /\ trace' = Append(trace, CallEvent(sym, TRUE, TRUE, {}, module_for_sym[sym]))
            /\ UNCHANGED <<heap, bstack, bstatus>>
       ELSE /\ EnterOption(sym, TRUE)
            /\ returned' = NoModule
    /\ UNCHANGED <<direct_dep, required, alternative, modules, module_for_sym>>
    /\ UNCHANGED applyVars

\* a client (main_deps, a test) calls add_module_for_sym(sym)
AddModuleForSym(sym) ==
    /\ ClientCalls < MaxCalls
    /\ ClientCall(sym)
    /\ UNCHANGED detectVars

\* one round of `for d, v in required_deps(sym)`: v true calls
\* add_module_for_sym(d), v false appends the assignment (d.name, 'n')
RequiredDep ==
    /\ bstatus = "building"
    /\ BTop.ret = NoModule
    /\ BTop.i <= Len(BTop.todo)
    /\ LET d == BTop.todo[BTop.i][1]
           v == BTop.todo[BTop.i][2]
       IN IF v
          THEN IF Memoized(module_for_sym, d)
               THEN /\ bstack' = [bstack EXCEPT ![Len(bstack)].ret = module_for_sym[d]]
                    /\ trace' = Append(trace, CallEvent(d, FALSE, TRUE, {}, module_for_sym[d]))
                    /\ UNCHANGED <<heap, bstatus>>
               ELSE EnterOption(d, FALSE)
          ELSE /\ heap' = [heap EXCEPT ![BTop.mod].assignments = Append(@, <<d, "n">>)]
               /\ bstack' = [bstack EXCEPT ![Len(bstack)].i = @ + 1]
               /\ UNCHANGED <<bstatus, trace>>
    /\ UNCHANGED <<direct_dep, required, alternative, modules, module_for_sym, returned>>
    /\ UNCHANGED applyVars
    /\ UNCHANGED detectVars

\* mod.deps.append(depm)
AppendDep ==
    /\ bstatus = "building"
    /\ BTop.ret # NoModule
    /\ heap' = [heap EXCEPT ![BTop.mod].deps = Append(@, BTop.ret)]
    /\ bstack' = [bstack EXCEPT ![Len(bstack)].i = @ + 1, ![Len(bstack)].ret = NoModule]
    /\ UNCHANGED <<direct_dep, required, alternative, modules, module_for_sym, bstatus, returned, trace>>
    /\ UNCHANGED applyVars
    /\ UNCHANGED detectVars

\* self.modules[mod.name] = mod; return mod; then in add_module_for_sym:
\* self.module_for_sym[sym] = mod; return mod
FinishOption ==
    /\ bstatus = "building"
    /\ BTop.ret = NoModule
    /\ BTop.i > Len(BTop.todo)
    /\ modules' = ModulesPut(modules, heap[BTop.mod].name, BTop.mod)
    /\ module_for_sym' = [module_for_sym EXCEPT ![BTop.sym] = BTop.mod]
    /\ trace' = Append(trace, ReturnEvent(BTop.sym, BTop.mod))
    /\ IF Len(bstack) = 1
       THEN /\ bstack' = <<>>
            /\ bstatus' = "idle"
            /\ returned' = BTop.mod
       ELSE /\ bstack' = [SubSeq(bstack, 1, Len(bstack) - 1) EXCEPT ![Len(bstack) - 1].ret = BTop.mod]
            /\ UNCHANGED <<bstatus, returned>>
    /\ UNCHANGED <<direct_dep, required, alternative, heap>>
    /\ UNCHANGED applyVars
    /\ UNCHANGED detectVars

NextBuild ==
    (\E sym \in KSyms : AddModuleForSym(sym)) \/ RequiredDep \/ AppendDep \/ FinishOption

\* ------------------------------------------------------------------------
\* Oracles the builder is run against
\* ------------------------------------------------------------------------
\* the pairs a symbol may require: every other symbol, required true or false
PairOrder(sym) ==
    LET others == KSyms \ {sym}
        a == CHOOSE x \in others : TRUE
        b == CHOOSE x \in others : x # a
    IN << <<a, TRUE>>, <<a, FALSE>>, <<b, TRUE>>, <<b, FALSE>> >>

RECURSIVE Pick(_, _, _)
Pick(seq, I, k) ==
    IF k > Len(seq) THEN <<>>
    ELSE IF k \in I THEN <<seq[k]>> \o Pick(seq, I, k + 1)
    ELSE Pick(seq, I, k + 1)

RequiredLists(sym) ==
    {Pick(PairOrder(sym), I, 1) : I \in {J \in SUBSET (1..4) : Cardinality(J) <= MaxReq}}

InitBuild ==
    /\ direct_dep \in [KSyms -> BOOLEAN]
    /\ required \in {r \in [KSyms -> UNION {RequiredLists(s) : s \in KSyms}] :
                        \A s \in KSyms : r[s] \in RequiredLists(s)}
    /\ alternative = [s \in KSyms |-> <<>>]
    /\ heap = <<>>
    /\ modules = <<>>
    /\ module_for_sym = [s \in KSyms |-> NoModule]
    /\ bstack = <<>>
    /\ bstatus = "idle"
    /\ returned = NoModule
    /\ trace = <<>>
    /\ all_nodes = <<>>
    /\ detect = NotDetecting
    /\ module_select_all = Module("module_select_all")
    /\ written = <<>>
    /\ config = [m \in Mods |-> ConfigModule(<<>>, <<>>, <<>>, <<>>)]
    /\ syms = [s \in Syms |-> "n"]
    /\ changes = <<>>
    /\ visited = {}
    /\ stack = <<>>
    /\ status = "unused"
    /\ log = <<>>
    /\ user_value = [s \in Syms |-> "n"]

SpecBuild == InitBuild /\ [][NextBuild]_vars

\* ------------------------------------------------------------------------
\* detect_modules: a module per detected node with options
\* ------------------------------------------------------------------------
Digit(i) ==
    CASE i = 0 -> "0" [] i = 1 -> "1" [] i = 2 -> "2" [] i = 3 -> "3" [] i = 4 -> "4"
      [] i = 5 -> "5" [] i = 6 -> "6" [] i = 7 -> "7" [] i = 8 -> "8" [] OTHER -> "9"

RECURSIVE Decimal(_)
Decimal(i) == IF i < 10 THEN Digit(i) ELSE Decimal(i \div 10) \o Digit(i % 10)

\* "{:04d}".format(i): zero-padded to four digits, longer numbers in full
Format04d(i) ==
    IF i < 10 THEN "000" \o Decimal(i)
    ELSE IF i < 100 THEN "00" \o Decimal(i)
    ELSE IF i < 1000 THEN "0" \o Decimal(i)
    ELSE Decimal(i)

\* "{:04d}_{}".format(next_local_module_id(), node.get_canonical_name())
LocalModuleName(i, name) == Format04d(i) \o "_" \o name

\* a detect_modules that makes a module for a node without options too
HasOptions_Always(opts) == TRUE

\* `if len(opts) > 0`
HasOptions(opts) == Len(opts) > 0

\* for node in all_nodes: opts = config_db.find_options(node); a node with
\* options gets its Module, a node without is passed over
DetectNode ==
    /\ detect.pc = "nodes"
    /\ detect.node <= Len(all_nodes)
    /\ LET node == all_nodes[detect.node]
       IN IF HasOptions(node.opts)
          THEN /\ heap' = Append(heap, Module(LocalModuleName(detect.local_module_count, node.name)))
               /\ detect' = [detect EXCEPT !.pc = "opts", !.opt = 1, !.mod = Len(heap) + 1,
                                           !.local_module_count = @ + 1]
          ELSE /\ detect' = [detect EXCEPT !.node = @ + 1]
               /\ UNCHANGED heap
    /\ UNCHANGED <<direct_dep, required, alternative, modules, module_for_sym, bstack, bstatus, returned, trace>>
    /\ UNCHANGED <<all_nodes, module_select_all, written>>
    /\ UNCHANGED applyVars

\* for o in opts: m = module_creator.add_module_for_sym(kconfig.syms[o])
DetectOption ==
    /\ detect.pc = "opts"
    /\ detect.opt <= Len(all_nodes[detect.node].opts)
    /\ ClientCall(all_nodes[detect.node].opts[detect.opt])
    /\ detect' = [detect EXCEPT !.pc = "append"]
    /\ UNCHANGED <<all_nodes, module_select_all, written>>

\* mod.deps.append(m), once add_module_for_sym has returned m
DetectAppend ==
    /\ detect.pc = "append"
    /\ bstatus = "idle"
    /\ heap' = [heap EXCEPT ![detect.mod].deps = Append(@, returned)]
    /\ detect' = [detect EXCEPT !.pc = "opts", !.opt = @ + 1]
    /\ UNCHANGED <<direct_dep, required, alternative, modules, module_for_sym, bstack, bstatus, returned, trace>>
    /\ UNCHANGED <<all_nodes, module_select_all, written>>
    /\ UNCHANGED applyVars

\* module_creator.add_external_module(mod); module_creator.select_module(mod)
DetectRegister ==
    /\ detect.pc = "opts"
    /\ detect.opt > Len(all_nodes[detect.node].opts)
    /\ modules' = ModulesPut(modules, heap[detect.mod].name, detect.mod)
    /\ module_select_all' = [module_select_all EXCEPT !.deps = Append(@, detect.mod)]
    /\ detect' = [detect EXCEPT !.pc = "nodes", !.node = @ + 1]
    /\ UNCHANGED <<direct_dep, required, alternative, heap, module_for_sym, bstack, bstatus, returned, trace>>
    /\ UNCHANGED <<all_nodes, written>>
    /\ UNCHANGED applyVars

\* return module_creator
DetectReturn ==
    /\ detect.pc = "nodes"
    /\ detect.node > Len(all_nodes)
    /\ detect' = [detect EXCEPT !.pc = "detected"]
    /\ UNCHANGED buildVars
    /\ UNCHANGED <<all_nodes, module_select_all, written>>
    /\ UNCHANGED applyVars

\* ------------------------------------------------------------------------
\* write_detected_modules: reverse dependencies, then the modules in order
\* ------------------------------------------------------------------------
\* the Module objects the graph holds
GraphObjects(ms) == {ms[i].mod : i \in 1..Len(ms)}

\* a _create_reverse_deps that clears nothing
ClearRevDeps_None(h, ms) == h

\* for m in self.modules: self.modules[m].rev_deps = []
ClearRevDeps(h, ms) ==
    [i \in 1..Len(h) |-> IF i \in GraphObjects(ms) THEN [h[i] EXCEPT !.rev_deps = <<>>] ELSE h[i]]

\* a loop that puts the dependent in front of the list
RECURSIVE AppendRevDeps_InFront(_, _, _)
AppendRevDeps_InFront(h, deps, m) ==
    IF deps = <<>> THEN h
    ELSE AppendRevDeps_InFront([h EXCEPT ![Head(deps)].rev_deps = <<m>> \o @], Tail(deps), m)

\* for d in deps: d.rev_deps.append(m)
RECURSIVE AppendRevDeps(_, _, _)
AppendRevDeps(h, deps, m) ==
    IF deps = <<>> THEN h
    ELSE AppendRevDeps([h EXCEPT ![Head(deps)].rev_deps = Append(@, m)], Tail(deps), m)

\* for m in self.modules: for d in self.modules[m].deps: d.rev_deps.append(self.modules[m])
RECURSIVE FillRevDeps(_, _, _)
FillRevDeps(h, ms, k) ==
    IF k > Len(ms) THEN h
    ELSE FillRevDeps(AppendRevDeps(h, h[ms[k].mod].deps, ms[k].mod), ms, k + 1)

\* _create_reverse_deps: the Module objects with their rev_deps rebuilt
create_reverse_deps(h, ms, all) ==
    AppendRevDeps(FillRevDeps(ClearRevDeps(h, ms), ms, 1), all.deps, SelectAllRef)

\* main_deps: module_creator.add_module_for_sym(sym) for the symbol asked for
MainDeps ==
    /\ detect.pc = "deps"
    /\ \E sym \in KSyms : ClientCall(sym)
    /\ detect' = [detect EXCEPT !.pc = "deps_built"]
    /\ UNCHANGED <<all_nodes, module_select_all, written>>

\* _write_detected_modules begins, for the first time or again on the graph
\* already rendered: a new writer, then self._create_reverse_deps()
CreateReverseDeps ==
    /\ \/ detect.pc = "detected"
       \/ detect.pc = "deps_built" /\ bstatus = "idle"
       \/ detect.pc = "rendered" /\ detect.renders < MaxRenders
    /\ heap' = create_reverse_deps(heap, modules, module_select_all)
    /\ module_select_all' = [module_select_all EXCEPT !.rev_deps = <<>>]
    /\ written' = <<>>
    /\ detect' = [detect EXCEPT !.pc = "write", !.entry = 1, !.renders = @ + 1]
    /\ UNCHANGED <<direct_dep, required, alternative, modules, module_for_sym, bstack, bstatus, returned, trace>>
    /\ UNCHANGED all_nodes
    /\ UNCHANGED applyVars

\* the set `visited` of _write_detected_modules
Written == {written[i].mod : i \in 1..Len(written)}

\* for m in self.modules: visit(self.modules[m])
WriteModule ==
    /\ detect.pc = "write"
    /\ detect.entry <= Len(modules)
    /\ LET m == modules[detect.entry].mod
       IN written' = IF m \in Written THEN written
                     ELSE Append(written, [mod |-> m, name |-> heap[m].name])
    /\ detect' = [detect EXCEPT !.entry = @ + 1]
    /\ UNCHANGED buildVars
    /\ UNCHANGED <<all_nodes, module_select_all>>
    /\ UNCHANGED applyVars

\* a writer that writes the select_all module whether it is used or not
SelectAllUsed_Always(all) == TRUE

\* `if len(self.module_select_all.deps) > 0`
SelectAllUsed(all) == Len(all.deps) > 0

\* lastly the select_all module, under the name the caller gave
WriteSelectAll ==
    /\ detect.pc = "write"
    /\ detect.entry > Len(modules)
    /\ IF SelectAllUsed(module_select_all)
       THEN /\ module_select_all' = [module_select_all EXCEPT !.name = detect.output_module_name]
            /\ written' = Append(written, [mod |-> SelectAllRef, name |-> detect.output_module_name])
       ELSE UNCHANGED <<module_select_all, written>>
    /\ detect' = [detect EXCEPT !.pc = "rendered"]
    /\ UNCHANGED buildVars
    /\ UNCHANGED all_nodes
    /\ UNCHANGED applyVars

\* ------------------------------------------------------------------------
\* check_config_against_detected_modules: the report of the detected options
\* ------------------------------------------------------------------------
\* visit_opt(opt, v) for the assignments in order: an option not seen before
\* is printed with its desired value, one seen before is passed over
RECURSIVE VisitOpts(_, _)
VisitOpts(st, assignments) ==
    IF assignments = <<>> THEN st
    ELSE LET opt == Head(assignments)[1]
             v == Head(assignments)[2]
             next == IF opt \in st.visited_opts THEN st
                     ELSE [st EXCEPT !.visited_opts = @ \cup {opt},
                                     !.report = Append(@, [opt |-> opt, value |-> v])]
         IN VisitOpts(next, Tail(assignments))

\* visit(m): once per module, first the dependencies, then the assignments
RECURSIVE CheckVisit(_, _)
RECURSIVE CheckVisitAll(_, _)
CheckVisit(st, m) ==
    IF m \in st.visited THEN st
    ELSE VisitOpts(CheckVisitAll([st EXCEPT !.visited = @ \cup {m}], heap[m].deps),
                   heap[m].assignments)

\* for d in m.deps: visit(d)
CheckVisitAll(st, deps) ==
    IF deps = <<>> THEN st ELSE CheckVisitAll(CheckVisit(st, Head(deps)), Tail(deps))

\* main_detect in check mode: the modules detect_modules returned are handed
\* to check_config_against_detected_modules
CheckConfig ==
    /\ detect.pc = "detected"
    /\ detect' = [detect EXCEPT !.pc = "check", !.entry = 1,
                                !.visited = {}, !.visited_opts = {}, !.report = <<>>]
    /\ UNCHANGED buildVars
    /\ UNCHANGED <<all_nodes, module_select_all, written>>
    /\ UNCHANGED applyVars

\* for m in modules: visit(modules[m])
CheckModule ==
    /\ detect.pc = "check"
    /\ detect.entry <= Len(modules)
    /\ detect' = [CheckVisit(detect, modules[detect.entry].mod) EXCEPT !.entry = @ + 1]
    /\ UNCHANGED buildVars
    /\ UNCHANGED <<all_nodes, module_select_all, written>>
    /\ UNCHANGED applyVars

\* the report is complete
CheckReturn ==
    /\ detect.pc = "check"
    /\ detect.entry > Len(modules)
    /\ detect' = [detect EXCEPT !.pc = "checked"]
    /\ UNCHANGED buildVars
    /\ UNCHANGED <<all_nodes, module_select_all, written>>
    /\ UNCHANGED applyVars

NextDetect ==
    \/ DetectNode \/ DetectOption \/ DetectAppend \/ DetectRegister \/ DetectReturn
    \/ MainDeps
    \/ RequiredDep \/ AppendDep \/ FinishOption
    \/ CreateReverseDeps \/ WriteModule \/ WriteSelectAll
    \/ CheckConfig \/ CheckModule \/ CheckReturn

\* ------------------------------------------------------------------------
\* Systems detect_modules is run on
\* ------------------------------------------------------------------------
\* what find_options returns for a node: option names, none twice
OptLists == {o \in SeqsUpTo(KSyms, MaxOpts) : NoRepeat(o)}

DetectedNodes == [name : NodeNames, opts : OptLists]

\* all_nodes.sort(key=lambda x: x.get_canonical_name())
NameRank(name) == IF name = "pci" THEN 1 ELSE 2

SortedByName(nodes) ==
    \A i, j \in 1..Len(nodes) : i < j => NameRank(nodes[i].name) <= NameRank(nodes[j].name)

\* a sort that leaves the nodes as the detector found them
SortNodes_Unsorted(nodes) == nodes

\* list.sort is stable: a node goes behind the nodes whose name is not greater
InsertNode(sorted, node) ==
    LET k == Cardinality({i \in 1..Len(sorted) : NameRank(sorted[i].name) <= NameRank(node.name)})
    IN SubSeq(sorted, 1, k) \o <<node>> \o SubSeq(sorted, k + 1, Len(sorted))

RECURSIVE SortNodes(_)
SortNodes(nodes) ==
    IF nodes = <<>> THEN <<>>
    ELSE InsertNode(SortNodes(SubSeq(nodes, 1, Len(nodes) - 1)), nodes[Len(nodes)])

\* the options of all the nodes together
RECURSIVE OptionCount(_)
OptionCount(nodes) ==
    IF nodes = <<>> THEN 0 ELSE Len(Head(nodes).opts) + OptionCount(Tail(nodes))

\* the nodes of the detectors, in any order, sorted
NodeLists ==
    {SortNodes(nodes) : nodes \in {n \in SeqsUpTo(DetectedNodes, MaxNodes) : OptionCount(n) <= MaxCatalog}}

\* the oracles of the detection runs: NET requires INET (and IPV6 off),
\* INET may require IPV6
DetectOracles ==
    {[sym \in KSyms |-> CASE sym = "NET" -> a [] sym = "INET" -> b [] OTHER -> <<>>] :
        a \in {<< <<"INET", TRUE>> >>, << <<"INET", TRUE>>, <<"IPV6", FALSE>> >>},
        b \in {<<>>, << <<"IPV6", TRUE>> >>}}

InitDetect ==
    /\ \/ /\ all_nodes \in NodeLists
          /\ detect = [NotDetecting EXCEPT !.pc = "nodes", !.node = 1]
       \/ /\ all_nodes = <<>>
          /\ detect = [NotDetecting EXCEPT !.pc = "deps", !.output_module_name = DepsModuleName]
    /\ module_select_all = Module("module_select_all")
    /\ written = <<>>
    /\ direct_dep = [s \in KSyms |-> FALSE]
    /\ required \in DetectOracles
    /\ alternative = [s \in KSyms |-> <<>>]
    /\ heap = <<>>
    /\ modules = <<>>
    /\ module_for_sym = [s \in KSyms |-> NoModule]
    /\ bstack = <<>>
    /\ bstatus = "idle"
    /\ returned = NoModule
    /\ trace = <<>>
    /\ config = [m \in Mods |-> ConfigModule(<<>>, <<>>, <<>>, <<>>)]
    /\ syms = [s \in Syms |-> "n"]
    /\ changes = <<>>
    /\ visited = {}
    /\ stack = <<>>
    /\ status = "unused"
    /\ log = <<>>
    /\ user_value = [s \in Syms |-> "n"]

SpecDetect == InitDetect /\ [][NextDetect]_vars

\* ------------------------------------------------------------------------
\* A built module applied: the graph is written in the module format, the
\* configuration uses the module from its kernel block, and the engine runs
\* ------------------------------------------------------------------------
\* `use d.name;` for every dependency, in order
RECURSIVE UseNames(_)
UseNames(deps) == IF deps = <<>> THEN <<>> ELSE <<heap[Head(deps)].name>> \o UseNames(Tail(deps))

\* the configuration that holds the written modules and a kernel block
\* using the module `root`
ToConfig(root) ==
    [name \in {Root} \cup {modules[i].name : i \in 1..Len(modules)} |->
        IF name = Root
        THEN ConfigModule(<<heap[root].name>>, <<>>, <<>>, <<>>)
        ELSE LET obj == heap[modules[(CHOOSE i \in 1..Len(modules) : modules[i].name = name)].mod]
             IN ConfigModule(UseNames(obj.deps), <<>>, obj.assignments, obj.assertions)]

\* the module add_module_for_sym returned is written, used and applied
ApplyBuilt ==
    /\ bstatus = "idle"
    /\ returned # NoModule
    /\ status = "unused"
    /\ config' = ToConfig(returned)
    /\ status' = "start"
    /\ bstatus' = "written"
    /\ UNCHANGED <<syms, changes, visited, stack, log, user_value>>
    /\ UNCHANGED <<direct_dep, required, alternative, heap, modules, module_for_sym, bstack, returned, trace>>
    /\ UNCHANGED detectVars

NextResolve ==
    \/ (\E sym \in KSyms : AddModuleForSym(sym)) \/ RequiredDep \/ AppendDep \/ FinishOption
    \/ ApplyBuilt
    \/ Start \/ Visit \/ SetSymbol \/ Return

\* the symbols the direct dependency of sym names, and those they name
RECURSIVE Names(_, _, _)
Names(r, S, n) ==
    IF n = 0 THEN S
    ELSE Names(r, S \cup UNION {{r[x][k][1] : k \in 1..Len(r[x])} : x \in S}, n - 1)

\* the oracle accepts no dependency loop
Acyclic(r) ==
    \A sym \in KSyms :
        sym \notin Names(r, {r[sym][k][1] : k \in 1..Len(r[sym])}, Cardinality(KSyms))

\* INET may have a second way to be reachable: `depends on ... || IPV4`
Alternatives ==
    {[s \in KSyms |-> <<>>],
     [s \in KSyms |-> IF s = "INET" THEN << << <<"IPV4", TRUE>> >> >> ELSE <<>>]}

ResolveOracles ==
    {r \in [KSyms -> UNION {RequiredLists(s) : s \in KSyms}] :
        /\ \A s \in KSyms : r[s] \in RequiredLists(s)
        /\ Len(r["NET"]) + Len(r["INET"]) + Len(r["IPV6"]) <= MaxPairs
        /\ Acyclic(r)}

InitResolve ==
    /\ required \in ResolveOracles
    /\ alternative \in Alternatives
    /\ user_value \in [KSyms \cup ExtraSyms -> {"n", "y"}]
    /\ syms = StrValues(user_value)
    /\ direct_dep = [sym \in KSyms |-> DirectDep(syms, sym)]
    /\ heap = <<>>
    /\ modules = <<>>
    /\ module_for_sym = [s \in KSyms |-> NoModule]
    /\ bstack = <<>>
    /\ bstatus = "idle"
    /\ returned = NoModule
    /\ trace = <<>>
    /\ all_nodes = <<>>
    /\ detect = NotDetecting
    /\ module_select_all = Module("module_select_all")
    /\ written = <<>>
    /\ config = [m \in Mods |-> ConfigModule(<<>>, <<>>, <<>>, <<>>)]
    /\ changes = <<>>
    /\ visited = {}
    /\ stack = <<>>
    /\ status = "unused"
    /\ log = <<>>

SpecResolve == InitResolve /\ [][NextResolve]_vars

\* ------------------------------------------------------------------------
\* Reading the history and the module graph
\* ------------------------------------------------------------------------
\* a call of set_symbol / of the oracle's set_value / a processing step
IsAssign(e) == e.op \in {"set_symbol", "set_value", "set_value_refused"}
Asked(e) == e.op \in {"set_value", "set_value_refused"}
IsProcessing(e) == IsAssign(e) \/ e.op \in {"merge", "assert_symbol"}

ReturnedBefore(m, i) ==
    \E j \in 1..(i - 1) : log[j].op = "visit" /\ log[j].module = m /\ log[j].result = "returned"

Deps(m) == Range(config[m].dependencies)

RECURSIVE Closure(_, _)
Closure(S, n) ==
    IF n = 0 THEN S ELSE Closure(S \cup UNION {Deps(m) : m \in S}, n - 1)

\* the modules m depends on, directly or transitively
TransDeps(m) == Closure(Deps(m), Cardinality(Mods))

Reachable == {Root} \cup TransDeps(Root)

HasCycle == \E m \in Reachable : m \in TransDeps(m)

\* ------------------------------------------------------------------------
\* Claims: the assignment engine
\* ------------------------------------------------------------------------
\* C1: when an earlier-visited module assigned X the value v and a later
\* module assigns X a different value w, the second assignment ends the run
\* with the conflict error and the oracle is not asked to set X to w.
C1_DifferentValueConflicts ==
    \A i, j \in 1..Len(log) :
        (/\ i < j
         /\ IsAssign(log[i]) /\ IsAssign(log[j])
         /\ log[i].symbol = log[j].symbol
         /\ log[i].module # log[j].module
         /\ log[i].value # log[j].value)
        => (log[j].result = "conflict" /\ ~Asked(log[j]) /\ status = "conflict")

\* C2: when two visited modules assign the same value v to X, the second
\* assignment is skipped: the run does not fail on it, the oracle's set is
\* not invoked again, and the change log has at most one record for X.
C2_SameValueSkipped ==
    \A i, j \in 1..Len(log) :
        (/\ i < j
         /\ IsAssign(log[i]) /\ IsAssign(log[j])
         /\ log[i].symbol = log[j].symbol
         /\ log[i].module # log[j].module
         /\ log[i].value = log[j].value)
        => (/\ log[j].result = "skipped"
            /\ ~Asked(log[j])
            /\ Cardinality({k \in 1..Len(changes) : changes[k].symbol = log[j].symbol}) <= 1)

\* C3: every module reachable from the root is processed exactly once, a
\* module is processed (and returns) only after every module it depends on,
\* directly or transitively, has been completely processed, and no two
\* modules' processing is interleaved.
C3_DependenciesFirstOnce ==
    /\ \A i, j \in 1..Len(log) :
          (log[i].op = "visit" /\ log[j].op = "visit" /\ log[i].module = log[j].module
           /\ log[i].result = log[j].result) => i = j
    /\ \A i \in 1..Len(log) :
          (IsProcessing(log[i]) \/ (log[i].op = "visit" /\ log[i].result = "returned"))
          => \A d \in TransDeps(log[i].module) : ReturnedBefore(d, i)
    /\ \A i, j \in 1..Len(log) :
          (i < j /\ IsProcessing(log[i]) /\ IsProcessing(log[j]) /\ log[i].module # log[j].module)
          => ReturnedBefore(log[i].module, j)
    /\ status = "done" => \A m \in Reachable : ReturnedBefore(m, Len(log) + 1)

\* C6: a run on a module graph with a dependency cycle reachable from the
\* root fails with a dependency-cycle error instead of completing.
C6_CycleFails == HasCycle => status # "done"

\* C8 (as claimed): a rejected value (set_value returned false, or the value
\* read back differs from the requested one) for a symbol no earlier module
\* assigned never aborts the run.
C8_RejectionNeverAborts ==
    \A i \in 1..Len(log) :
        (/\ Asked(log[i])
         /\ (log[i].op = "set_value_refused" \/ log[i].new # log[i].value)
         /\ \A j \in 1..(i - 1) : ~(IsAssign(log[j]) /\ log[j].symbol = log[i].symbol))
        => ~(i = Len(log) /\ status \notin {"running", "done"})

\* C8 (amended): when set_value accepts the call but the value read back
\* differs from the requested one, the engine only warns and the run goes on
\* with the next step; when set_value returns false the run aborts at once
\* with the invalid-value error and nothing is recorded.
C8_ReadBackMismatchWarns ==
    \A i \in 1..Len(log) :
        /\ (log[i].op = "set_value" /\ log[i].new # log[i].value)
           => (log[i].result = "warned" /\ (i = Len(log) => status \in {"running", "done"}))
        /\ log[i].op = "set_value_refused"
           => (i = Len(log) /\ status = "invalid" /\ log[i].symbol \notin ChangedSyms(changes))

C8_Witness ==
    \E i \in 1..Len(log) :
        /\ log[i].op = "set_value" /\ log[i].new # log[i].value
        /\ \A j \in 1..(i - 1) : ~(IsAssign(log[j]) /\ log[j].symbol = log[i].symbol)
        /\ \E j \in (i + 1)..Len(log) : IsProcessing(log[j]) /\ log[j].module # log[i].module
        /\ status = "done"

\* the records the history accounts for: one per accepted set_value call
\* that changed the value of the symbol it was called on, in call order
RECURSIVE Recorded(_)
Recorded(h) ==
    IF h = <<>> THEN <<>>
    ELSE LET e == h[Len(h)]
             before == Recorded(SubSeq(h, 1, Len(h) - 1))
         IN IF e.op = "set_value" /\ e.old # e.new
            THEN Append(before, [symbol |-> e.symbol, old |-> e.old, new |-> e.new])
            ELSE before

\* C9: at every point the change log holds exactly one record per symbol
\* whose value an applied assignment changed, the record being (value before
\* the set, value after it), in the order of the first changes; records are
\* never replaced or removed.
C9_ChangeLogIsRecordOfChanges ==
    /\ [](/\ changes = Recorded(log)
          /\ \A i, j \in 1..Len(changes) : changes[i].symbol = changes[j].symbol => i = j)
    /\ [][/\ Len(changes') >= Len(changes)
          /\ SubSeq(changes', 1, Len(changes)) = changes]_vars

C9_Witness ==
    /\ Len(changes) = 2
    /\ \E i \in 1..Len(log) : log[i].op = "set_value" /\ log[i].old = log[i].new
    /\ status = "done"

\* C10: an assertion of module M is evaluated after all of M's merges and
\* assignments and after all assignments of every module M depends on,
\* directly or transitively, and before any merge or assignment of a module
\* processed after M; a mismatch aborts the run.
C10_AssertionOrder ==
    \A i \in 1..Len(log) :
        log[i].op = "assert_symbol" =>
            LET M == log[i].module
                Done(m, kind) ==
                    Cardinality({j \in 1..(i - 1) : log[j].module = m /\
                                    (IF kind = "merge" THEN log[j].op = "merge" ELSE IsAssign(log[j]))})
            IN /\ Done(M, "merge") = Len(config[M].merge_kconf_files)
               /\ Done(M, "assign") = Len(config[M].assignments)
               /\ \A d \in TransDeps(M) : Done(d, "assign") = Len(config[d].assignments)
               /\ \A j \in 1..(i - 1) :
                     (IsProcessing(log[j]) /\ log[j].module # M) => ReturnedBefore(log[j].module, i)
               /\ log[i].new # log[i].value => (i = Len(log) /\ status = "assertion")

\* C11: on the first conflict or assertion failure the engine stops: the
\* failing step is the last step of the run (no assignment, assertion, merge
\* or module is processed after it), and the failing step leaves the oracle
\* and the change log as they were: nothing set before is rolled back.
C11_StopsAtFirstFailure ==
    /\ [](\A i \in 1..Len(log) :
            log[i].result \in {"conflict", "failed"}
            => (i = Len(log) /\ status \in {"conflict", "assertion"}))
    /\ [][status \notin {"conflict", "assertion"}]_vars
    /\ [][status' \in {"conflict", "assertion"}
          => (syms' = syms /\ changes' = changes /\ stack' = stack /\ visited' = visited)]_vars

\* a dependency's assertion fails after its assignment changed the symbol,
\* while visits are still open
C11_Witness ==
    /\ status = "assertion"
    /\ Len(stack) >= 2
    /\ changes # <<>>
    /\ changes[1].old # changes[1].new
    /\ syms[changes[1].symbol] = changes[1].new

\* the merges / the assignments of module m among the first n history entries
MergesOf(m, n) == {j \in 1..n : log[j].op = "merge" /\ log[j].module = m}
AssignsOf(m, n) == {j \in 1..n : IsAssign(log[j]) /\ log[j].module = m}

\* C20: a module's files are merged in list order, all of them before any of
\* the module's assignments; over the run the files are merged in the order
\* the modules are processed (a module's files after those of the modules
\* processed before it); a merge enters nothing in the change log.
C20_MergesFirstInOrder ==
    /\ [](\A i \in 1..Len(log) :
            /\ log[i].op = "merge" =>
                 LET M == log[i].module
                     k == Cardinality(MergesOf(M, i))
                 IN /\ k <= Len(config[M].merge_kconf_files)
                    /\ log[i].value = config[M].merge_kconf_files[k]
                    /\ AssignsOf(M, i) = {}
                    /\ \A j \in 1..(i - 1) :
                          (log[j].op = "merge" /\ log[j].module # M) => ReturnedBefore(log[j].module, i)
            /\ IsAssign(log[i]) =>
                 Cardinality(MergesOf(log[i].module, i)) = Len(config[log[i].module].merge_kconf_files))
    /\ [][(Len(log') = Len(log) + 1 /\ log'[Len(log')].op = "merge") => changes' = changes]_vars

C20_Witness ==
    /\ status = "done"
    /\ \E i, j, k \in 1..Len(log) :
          /\ i < j /\ j < k
          /\ log[i].op = "merge" /\ log[i].module = "net"
          /\ log[j].op = "merge" /\ log[j].module = "kernel"
          /\ log[k].op = "merge" /\ log[k].module = "kernel"
          /\ log[j].value # log[k].value
    /\ \E i \in 1..(Len(log) - 1) :
          log[i].op = "merge" /\ log[i + 1].op = "set_value" /\ log[i + 1].old = "m"

\* C21: evaluating an assertion leaves the oracle's symbol values, the change
\* log and the visited set as they were, whether the assertion passes or
\* fails.
C21_AssertionChangesNothing ==
    [][(Len(log') = Len(log) + 1 /\ log'[Len(log')].op = "assert_symbol")
       => (syms' = syms /\ user_value' = user_value /\ changes' = changes /\ visited' = visited)]_vars

\* an assertion passed and a later one failed, with a change on record
C21_Witness ==
    /\ status = "assertion"
    /\ log[Len(log)].op = "assert_symbol" /\ log[Len(log)].result = "failed"
    /\ \E i \in 1..(Len(log) - 1) : log[i].op = "assert_symbol" /\ log[i].result = "passed"
    /\ changes # <<>>
    /\ Cardinality(visited) >= 2

\* C26: when a run completes without a fatal error, the
\* new-value of every change record is the value the symbol has in the oracle
\* at the end of the run, and every record has old-value # new-value.
C26_RecordsHoldFinalValues ==
    status = "done" =>
        \A k \in 1..Len(changes) :
            /\ changes[k].new = syms[changes[k].symbol]
            /\ changes[k].old # changes[k].new

\* ------------------------------------------------------------------------
\* Claims: the module graph builder
\* ------------------------------------------------------------------------
\* the step is a call add_module_for_sym(sym), by the client or nested
CallOf(sym) ==
    /\ Len(trace') = Len(trace) + 1
    /\ trace'[Len(trace')].op = "add_module_for_sym"
    /\ trace'[Len(trace')].sym = sym

\* C4: a call of add_module_for_sym for a symbol that already has its module
\* returns that very module, creates no module, leaves every module's
\* dependencies and assignments and the graph as they are, and does not ask
\* the oracle about the symbol again.
C4_MemoizedCallChangesNothing ==
    [][\A sym \in KSyms :
          (CallOf(sym) /\ module_for_sym[sym] # NoModule) =>
              /\ trace'[Len(trace')].mod = module_for_sym[sym]
              /\ IF trace'[Len(trace')].client
                 THEN returned' = module_for_sym[sym]
                 ELSE bstack'[Len(bstack')].ret = module_for_sym[sym] /\ Len(bstack') = Len(bstack)
              /\ heap' = heap
              /\ modules' = modules
              /\ module_for_sym' = module_for_sym
              /\ trace'[Len(trace')].queried = {}]_vars

C4_Witness ==
    /\ \E i \in 1..Len(trace) : trace[i].op = "add_module_for_sym" /\ trace[i].memo /\ trace[i].client
    /\ \E i \in 1..Len(trace) : trace[i].op = "add_module_for_sym" /\ trace[i].memo /\ ~trace[i].client
    /\ Len(heap) = 3

Count(seq, x) == Cardinality({k \in 1..Len(seq) : seq[k] = x})

\* C5 (as claimed): the module built for a symbol S whose direct dependency
\* does not hold starts with the assignment (S, 'y'), has exactly one
\* dependency edge per pair (d, true) to the module built for d, exactly one
\* assignment (d, 'n') per pair (d, false), and no dependency edge to the
\* module of any d that is required false.
C5_EdgesAndAssignments ==
    \A S \in KSyms :
        (module_for_sym[S] # NoModule /\ ~direct_dep[S]) =>
            LET mod == heap[module_for_sym[S]]
                P == required[S]
            IN /\ mod.assignments[1] = <<S, "y">>
               /\ \A k \in 1..Len(P) :
                     IF P[k][2]
                     THEN Count(mod.deps, module_for_sym[P[k][1]]) = 1
                     ELSE /\ Count(mod.assignments, <<P[k][1], "n">>) = 1
                          /\ module_for_sym[P[k][1]] \notin Range(mod.deps)

\* the symbols the pairs require true, in the order of the pairs
RECURSIVE RequiredTrue(_)
RequiredTrue(P) ==
    IF P = <<>> THEN <<>>
    ELSE IF P[1][2] THEN <<P[1][1]>> \o RequiredTrue(Tail(P))
    ELSE RequiredTrue(Tail(P))

\* the assignments disabling the symbols required false, in the same order
RECURSIVE DisabledBy(_)
DisabledBy(P) ==
    IF P = <<>> THEN <<>>
    ELSE IF P[1][2] THEN DisabledBy(Tail(P))
    ELSE << <<P[1][1], "n">> >> \o DisabledBy(Tail(P))

\* C5 (amended): the module built for such an S has the assignments (S, 'y')
\* followed by one (d, 'n') per pair (d, false), and its dependency edges are
\* exactly the modules built for the d of the pairs (d, true), one per pair,
\* in the order of the pairs: no edge comes from a pair (d, false), but a d
\* that is required both true and false has the edge of its true pair.
C5_EdgesFromTruePairsOnly ==
    \A S \in KSyms :
        (module_for_sym[S] # NoModule /\ ~direct_dep[S]) =>
            LET mod == heap[module_for_sym[S]]
                T == RequiredTrue(required[S])
            IN /\ mod.assignments = << <<S, "y">> >> \o DisabledBy(required[S])
               /\ Len(mod.deps) = Len(T)
               /\ \A k \in 1..Len(T) :
                     /\ mod.deps[k] # NoModule
                     /\ mod.deps[k] = module_for_sym[T[k]]
                     /\ heap[mod.deps[k]].name = ModuleName(T[k])
                     /\ heap[mod.deps[k]].assignments[1] = <<T[k], "y">>

C5_Witness ==
    \E S \in KSyms :
        /\ module_for_sym[S] # NoModule /\ ~direct_dep[S]
        /\ \E a, b \in KSyms \ {S} :
              /\ a # b
              /\ required[S] = << <<a, TRUE>>, <<b, FALSE>> >>
              /\ heap[module_for_sym[S]].deps = <<module_for_sym[a]>>
              /\ module_for_sym[b] = NoModule

\* C7: add_module_for_sym terminates for every oracle: when the required
\* pairs are cyclic the build stops with a dependency-cycle failure, so a
\* symbol whose module is being built is never entered again and the
\* nesting does not grow without bound.
C7_BuildStopsOnCycle ==
    /\ \A i, j \in 1..Len(bstack) : bstack[i].sym = bstack[j].sym => i = j
    /\ bstatus # "recursion"

\* the step is the return of the call that built the module of sym
ReturnOf(sym) ==
    /\ Len(trace') = Len(trace) + 1
    /\ trace'[Len(trace')].op = "return"
    /\ trace'[Len(trace')].sym = sym

\* C19: when the direct dependency of a symbol already holds at build time,
\* the module built for it has no dependency edges and the one assignment
\* (symbol, 'y'), the required pairs are not queried, and the call creates
\* no other module: it returns right after it was entered, with one new
\* module object.
C19_SatisfiedDirectDep ==
    /\ [](\A S \in KSyms :
            (module_for_sym[S] # NoModule /\ direct_dep[S]) =>
                /\ heap[module_for_sym[S]].deps = <<>>
                /\ heap[module_for_sym[S]].assignments = << <<S, "y">> >>)
    /\ [][\A S \in KSyms :
            (CallOf(S) /\ module_for_sym[S] = NoModule /\ direct_dep[S] /\ bstatus' # "recursion") =>
                /\ trace'[Len(trace')].queried = {"expr_value"}
                /\ Len(heap') = Len(heap) + 1
                /\ modules' = modules]_vars
    /\ [][\A S \in KSyms :
            (ReturnOf(S) /\ direct_dep[S]) =>
                /\ trace[Len(trace)].op = "add_module_for_sym"
                /\ trace[Len(trace)].sym = S
                /\ trace[Len(trace)].mod = trace'[Len(trace')].mod
                /\ trace[Len(trace)].mod = Len(heap)
                /\ heap' = heap
                /\ Len(modules') <= Len(modules) + 1]_vars

C19_Witness ==
    \E S \in KSyms :
        /\ direct_dep[S]
        /\ Len(required[S]) = 2
        /\ required[S][1][2]
        /\ module_for_sym[S] # NoModule
        /\ Len(heap) = 1
        /\ Len(modules) = 1

\* ------------------------------------------------------------------------
\* Claims: detection and rendering
\* ------------------------------------------------------------------------
\* the nodes detect_modules has dealt with
Handled == 1..(detect.node - 1)

\* the name of the module of the k-th node: numbered by the nodes with
\* options before it
NodeModuleName(k) ==
    LocalModuleName(Cardinality({i \in 1..(k - 1) : Len(all_nodes[i].opts) > 0}), all_nodes[k].name)

AutoNames == {ModuleName(sym) : sym \in KSyms}

\* the Module objects made for nodes
NodeObjects == {h \in 1..Len(heap) : heap[h].name \notin AutoNames}

\* C14: a node for which the catalog has no option names is passed over in
\* one step that creates no module, registers nothing, adds nothing to the
\* select-all module and calls add_module_for_sym for nothing; a node with
\* at least one option name gets exactly one module, registered in the graph
\* under its name and once among the select-all module's dependencies.
C14_NodesWithoutOptionsSkipped ==
    /\ [][(/\ detect.pc = "nodes" /\ detect.node <= Len(all_nodes)
           /\ Len(all_nodes[detect.node].opts) = 0)
          => (/\ heap' = heap /\ modules' = modules /\ module_for_sym' = module_for_sym
              /\ module_select_all' = module_select_all /\ trace' = trace
              /\ detect' = [detect EXCEPT !.node = @ + 1])]_vars
    /\ [](\A k \in Handled :
            Len(all_nodes[k].opts) > 0 =>
                \E h \in NodeObjects :
                    /\ \A g \in NodeObjects : heap[g].name = NodeModuleName(k) <=> g = h
                    /\ \E i \in 1..Len(modules) : modules[i] = [name |-> NodeModuleName(k), mod |-> h]
                    /\ Count(module_select_all.deps, h) = 1
                    /\ Len(heap[h].deps) = Len(all_nodes[k].opts))
    /\ [](detect.pc = "nodes" =>
            /\ Cardinality(NodeObjects) = Cardinality({k \in Handled : Len(all_nodes[k].opts) > 0})
            /\ Len(module_select_all.deps) = Cardinality(NodeObjects)
            /\ ClientCalls = Cardinality({kj \in Handled \X (1..MaxOpts + 1) :
                                            kj[2] <= Len(all_nodes[kj[1]].opts)}))

C14_Witness ==
    /\ detect.pc = "detected"
    /\ Len(all_nodes) = 2
    /\ all_nodes[1].opts = <<>>
    /\ Len(all_nodes[2].opts) = 2
    /\ all_nodes[1].name = all_nodes[2].name
    /\ Len(module_select_all.deps) = 1
    /\ Len(modules) = 4

\* the modules among the first k graph entries with a dependency edge to D,
\* in the order of the entries
RECURSIVE Dependents(_, _)
Dependents(D, k) ==
    IF k = 0 THEN <<>>
    ELSE Dependents(D, k - 1) \o
         (IF D \in Range(heap[modules[k].mod].deps) THEN <<modules[k].mod>> ELSE <<>>)

RECURSIVE OptionNodes(_)
OptionNodes(k) ==
    IF k <= 0 THEN <<>>
    ELSE OptionNodes(k - 1) \o (IF Len(all_nodes[k].opts) > 0 THEN <<k>> ELSE <<>>)

\* the Module objects made for nodes among the first h objects, in the order
\* they were created
RECURSIVE NodeObjectSeq(_)
NodeObjectSeq(h) ==
    IF h = 0 THEN <<>>
    ELSE NodeObjectSeq(h - 1) \o (IF h \in NodeObjects THEN <<h>> ELSE <<>>)

\* C22: detect_modules handles the nodes in ascending order of canonical
\* name; the modules it creates carry the numbers 0, 1, 2, ... without gaps
\* in that order, a number being used up only by a node with at least one
\* option, and the select-all module's dependencies are in the same order.
C22_DetectionOrder ==
    LET open == detect.pc \in {"opts", "append"}
        withOpts == OptionNodes(IF open THEN detect.node ELSE detect.node - 1)
        objs == NodeObjectSeq(Len(heap))
    IN /\ SortedByName(all_nodes)
       /\ Len(objs) = Len(withOpts)
       /\ detect.local_module_count = Len(objs)
       /\ \A j \in 1..Len(objs) :
             heap[objs[j]].name = LocalModuleName(j - 1, all_nodes[withOpts[j]].name)
       /\ module_select_all.deps = SubSeq(objs, 1, IF open THEN Len(objs) - 1 ELSE Len(objs))

C22_Witness ==
    /\ detect.pc = "detected"
    /\ Len(all_nodes) = 2
    /\ all_nodes[1].name = "pci" /\ all_nodes[2].name = "usb"
    /\ Len(module_select_all.deps) = 2
    /\ heap[module_select_all.deps[1]].name = "0000_pci"
    /\ heap[module_select_all.deps[2]].name = "0001_usb"
    /\ Len(all_nodes[1].opts) = 2

\* the dependencies of a module handed to the writer
WrittenDeps(m) == IF m = SelectAllRef THEN module_select_all.deps ELSE heap[m].deps

\* C23: for a graph built through add_module_for_sym and detect_modules the
\* renderer writes the modules in topological order: a module is written
\* after every module it depends on, because a module enters the graph only
\* after all the modules it depends on have entered it; a render writes
\* every module of the graph.
C23_TopologicalOrder ==
    /\ \A i \in 1..Len(modules) :
          \A d \in Range(heap[modules[i].mod].deps) : \E j \in 1..(i - 1) : modules[j].mod = d
    /\ \A i \in 1..Len(written) :
          \A d \in Range(WrittenDeps(written[i].mod)) : \E j \in 1..(i - 1) : written[j].mod = d
    /\ detect.pc = "rendered" => GraphObjects(modules) \subseteq Written

\* a render of a chain of three modules under a node's module
C23_Witness ==
    /\ detect.pc = "rendered"
    /\ written # <<>>
    /\ written[Len(written)].mod = SelectAllRef
    /\ \E i \in 1..Len(written) :
          /\ written[i].mod # SelectAllRef
          /\ \E d \in Range(heap[written[i].mod].deps) :
                \E e \in Range(heap[d].deps) : heap[e].deps # <<>>

\* C25: rebuilding the reverse dependencies is idempotent: a render of the
\* graph already rendered gives every module, the select-all module and the
\* modules only it depends on included, the reverse-dependency list it had,
\* with nothing left over from the earlier render.
C25_ReverseDepsIdempotent ==
    [][(detect.pc = "rendered" /\ detect'.pc = "write")
       => (/\ Len(heap') = Len(heap)
           /\ \A h \in 1..Len(heap) : heap'[h].rev_deps = heap[h].rev_deps
           /\ module_select_all'.rev_deps = module_select_all.rev_deps
           /\ modules' = modules)]_vars

\* the second render is done; a module has the select-all module as its
\* only dependent, another has two dependents
C25_Witness ==
    /\ detect.pc = "rendered"
    /\ detect.renders = 2
    /\ \E h \in 1..Len(heap) : heap[h].rev_deps = <<SelectAllRef>>
    /\ \E h \in 1..Len(heap) : Len(heap[h].rev_deps) = 2 /\ SelectAllRef \notin Range(heap[h].rev_deps)

\* the options the report lists, and the line an option is listed on
Listed == {detect.report[i].opt : i \in 1..Len(detect.report)}

ReportPos(opt) == CHOOSE i \in 1..Len(detect.report) : detect.report[i].opt = opt

\* the options module m assigns
OptsOf(m) == {heap[m].assignments[k][1] : k \in 1..Len(heap[m].assignments)}

\* every assigned option is listed, none twice
ReportListsOnce ==
    /\ \A i, j \in 1..Len(detect.report) : detect.report[i].opt = detect.report[j].opt => i = j
    /\ \A i \in 1..Len(modules) : OptsOf(modules[i].mod) \subseteq Listed

\* the options of a module's dependencies come before the module's own
ReportDependenciesFirst ==
    \A i \in 1..Len(modules) :
        \A d \in Range(heap[modules[i].mod].deps) :
            \A o \in OptsOf(d), q \in OptsOf(modules[i].mod) : ReportPos(o) < ReportPos(q)

\* an option comes after the options its direct dependency names
ReportAfterWhatItDependsOn ==
    \A S \in KSyms :
        module_for_sym[S] # NoModule =>
            \A k \in 1..Len(PairsToProcess(S)) :
                ReportPos(PairsToProcess(S)[k][1]) < ReportPos(S)

\* C24: the check-mode report lists every assigned option at most once and
\* in dependency order: the options assigned by a module's dependencies come
\* before the module's own options, so that applying the listed values from
\* top to bottom never sets an option before the options it depends on.
C24_ReportInDependencyOrder ==
    detect.pc = "checked" =>
        (ReportListsOnce /\ ReportDependenciesFirst /\ ReportAfterWhatItDependsOn)

Memo == {S \in KSyms : module_for_sym[S] # NoModule}

Satisfiable(P) == \A i, j \in 1..Len(P) : P[i][1] = P[j][1] => P[i][2] = P[j][2]

\* the symbols P requires both true and false
Contradictory(P) == {P[i][1] : i \in {k \in 1..Len(P) : \E j \in 1..Len(P) : P[j][1] = P[k][1] /\ P[j][2] # P[k][2]}}

\* the engine's run has ended, one way or the other
Ended == status \in {"done", "conflict", "invalid", "assertion"}

\* the module applied is the one built for S
Applied(S) == Ended /\ module_for_sym[S] # NoModule /\ module_for_sym[S] = returned

\* the direct dependency of S can be satisfied: some values of the symbols
\* enable S, and the pairs the oracle reports contradict themselves nowhere
Enablable(S) ==
    /\ \E u \in [KSyms \cup ExtraSyms -> {"n", "y"}] : StrValues(u)[S] = "y"
    /\ \A T \in KSyms : Satisfiable(required[T])

\* C12: for every symbol S whose direct dependency is a satisfiable
\* condition over other symbols, in every oracle state, the module
\* add_module_for_sym(S) returns is sufficient: applied by the engine to that
\* oracle state it ends without conflict, with the direct dependency of S
\* satisfied and S enabled.
C12_BuiltModuleSufficient ==
    \A S \in KSyms :
        (Applied(S) /\ Enablable(S)) =>
            /\ status = "done"
            /\ DirectDep(syms, S)
            /\ syms[S] = "y"

\* C13: when the oracle reports contradictory required pairs for a symbol S
\* (A required true and A required false), add_module_for_sym(S) still
\* builds and returns the module, and applying the module ends with the
\* conflicting-assignment error on A, for every initial value of A.
C13_ContradictionConflictsAtApply ==
    \A S \in KSyms :
        (Contradictory(required[S]) # {} /\ ~direct_dep[S]) =>
            /\ bstatus # "recursion"
            /\ Applied(S) =>
                  /\ status = "conflict"
                  /\ log[Len(log)].result = "conflict"
                  /\ log[Len(log)].symbol \in Contradictory(required[S])

====
